---- MODULE Spec2Model ----
(***************************************************************************)
(* Model of the multi-agent evaluation core of agent-alignment-framework:  *)
(* the orchestrator (core/evaluator.py), the alignment analyser and the    *)
(* disagreement resolver (core/resolution.py), the decision schemas        *)
(* (core/models.py) and the HITL escalation builder (core/hitl.py).        *)
(*                                                                         *)
(* Numbers: confidences and thresholds are kept in hundredths (0.9 is 90); *)
(* quotients are kept exact as records [num, den].                         *)
(***************************************************************************)
EXTENDS Integers, Sequences, FiniteSets, TLC

VARIABLES
    agents,           \* self.agents: registered agent names, in registration order
    enable_hitl,      \* self.enable_hitl
    max_retries,      \* self.max_retries
    timeout_seconds,  \* self.timeout_seconds (stored and logged, never read again)
    task,             \* the EvaluationTask passed to evaluate
    pc,               \* position of evaluate: "idle", "inflight", "sleep", "done"
    agentIdx,         \* index of the agent the loop of _execute_agents is at
    attempt,          \* loop variable of _execute_agent_with_retry
    last_error,       \* local last_error of _execute_agent_with_retry
    transient_only,   \* history: every failure of the current agent so far was transient
    inflight,         \* set of agent indexes whose evaluate call has not returned
    elapsed,          \* seconds since the in-flight evaluate call was made
    agent_decisions,  \* local list agent_decisions of _execute_agents
    failed_agents,    \* local list failed_agents of _execute_agents
    retry_success,    \* history: agents that succeeded on attempt max_retries after transient failures only
    result,           \* Optional: the EvaluationResult returned by evaluate
    raised,           \* the exception evaluate raised to its caller
    hitl_pc,          \* "not_called" or "returned": build_hitl_request
    hitl_summary,     \* Optional: the alignment_summary argument of build_hitl_request
    hitl_request,     \* Optional: the value build_hitl_request returned
    threshold_config, \* the configuration dictionary the thresholds are created from
    thresholds,       \* the AlignmentThresholds of the analyser
    alignment_summary, \* Optional: the value a direct call of analyze_alignment returned
    synthesis,        \* Optional: the value a direct call of resolve_disagreement returned
    sum_builtin,      \* how the interpreter's sum() adds floats: "sequential" or "compensated"
    float_decisions,  \* a decision list whose confidences and scalar values are binary64
    float_permuted,   \* the same decisions in another order, passed to a second call
    float_decision,   \* Optional: decision of _resolve_boolean_decision on float_decisions
    float_decision_permuted, \* Optional: its decision on float_permuted
    float_agreement,  \* Optional: _analyze_decision_agreement on float_decisions
    schema_request,   \* the arguments of a schema constructor call
    schema_object,    \* Optional: the schema object the constructor returned
    schema_raised,    \* the error the constructor raised
    events            \* history: the log records emitted by evaluate, in order

vars == <<agents, enable_hitl, max_retries, timeout_seconds, task, pc, agentIdx,
          attempt, last_error, transient_only, inflight, elapsed, agent_decisions,
          failed_agents, retry_success, result, raised, hitl_pc, hitl_summary,
          hitl_request, threshold_config, thresholds, alignment_summary, synthesis, sum_builtin,
          float_decisions, float_permuted, float_decision, float_decision_permuted,
          float_agreement, schema_request, schema_object, schema_raised, events>>

(***************************************************************************)
(* Bounds of the model.                                                    *)
(***************************************************************************)
MaxAgents == 3
MaxRetriesBound == 2

(***************************************************************************)
(* Optional values (Python None / a value).                                *)
(***************************************************************************)
None == <<>>
Some(x) == <<x>>
Get(o) == o[1]

NULL == "null"

(***************************************************************************)
(* Small helpers over sequences.                                           *)
(***************************************************************************)
Range(s) == {s[i] : i \in 1..Len(s)}

Take(s, k) == SubSeq(s, 1, IF k < Len(s) THEN k ELSE Len(s))

RECURSIVE SumSeq(_)
SumSeq(s) == IF s = <<>> THEN 0 ELSE s[1] + SumSeq(Tail(s))

RECURSIVE Concat(_)
Concat(ss) == IF ss = <<>> THEN <<>> ELSE ss[1] \o Concat(Tail(ss))

AgentNamesOf(ds) == [i \in 1..Len(ds) |-> ds[i].agent_name]

MaxOf(S) == CHOOSE x \in S : \A y \in S : y <= x
MinOf(S) == CHOOSE x \in S : \A y \in S : x <= y

(***************************************************************************)
(* Decision values.  decision_value is typed Any in AgentDecision; a value *)
(* is a record tagged with its Python type.                                *)
(***************************************************************************)
BoolVal(b) == [type |-> "bool", b |-> b, s |-> "", num |-> 0, den |-> 1, l |-> <<>>]
StrVal(s) == [type |-> "str", b |-> FALSE, s |-> s, num |-> 0, den |-> 1, l |-> <<>>]
\* a float, kept exact as the quotient num / den (den > 0)
NumVal(num, den) ==
    [type |-> "num", b |-> FALSE, s |-> "", num |-> num, den |-> den, l |-> <<>>]
\* a list of strings
ListVal(l) == [type |-> "list", b |-> FALSE, s |-> "", num |-> 0, den |-> 1, l |-> l]

\* Python str(list of str): "['a', 'b']"
RECURSIVE StrItems(_)
StrItems(l) ==
    IF l = <<>> THEN ""
    ELSE IF Len(l) = 1 THEN "'" \o l[1] \o "'"
    ELSE "'" \o l[1] \o "', " \o StrItems(Tail(l))

\* Python str(value); a float of whole value n prints as "n.0"
Str(v) ==
    CASE v.type = "bool" -> (IF v.b THEN "True" ELSE "False")
      [] v.type = "str" -> v.s
      [] v.type = "num" ->
            IF v.den = 1 THEN ToString(v.num) \o ".0"
            ELSE ToString(v.num) \o "/" \o ToString(v.den)
      [] v.type = "list" -> "[" \o StrItems(v.l) \o "]"

(***************************************************************************)
(* Decision schemas (core/models.py).                                      *)
(***************************************************************************)
BooleanDecisionSchema ==
    [type |-> "boolean", categories |-> <<>>, allow_multiple |-> FALSE,
     min_value |-> 0, max_value |-> 1, min_length |-> None, max_length |-> None]

CategoricalDecisionSchema(categories, allow_multiple) ==
    [type |-> "categorical", categories |-> categories, allow_multiple |-> allow_multiple,
     min_value |-> 0, max_value |-> 1, min_length |-> None, max_length |-> None]

ScalarDecisionSchema(min_value, max_value) ==
    [type |-> "scalar", categories |-> <<>>, allow_multiple |-> FALSE,
     min_value |-> min_value, max_value |-> max_value,
     min_length |-> None, max_length |-> None]

FreeFormDecisionSchema(min_length, max_length) ==
    [type |-> "freeform", categories |-> <<>>, allow_multiple |-> FALSE,
     min_value |-> 0, max_value |-> 1, min_length |-> min_length,
     max_length |-> max_length]

\* a DecisionSchema subclass that is none of the four above
CustomDecisionSchema ==
    [type |-> "custom", categories |-> <<>>, allow_multiple |-> FALSE,
     min_value |-> 0, max_value |-> 1, min_length |-> None, max_length |-> None]

\* Python len(s) and s.lower().strip() on the strings of the model
WordLen(w) ==
    CASE w = "Strong" -> 6
      [] w = "strong" -> 6
      [] w = "evidence" -> 8
      [] w = "found" -> 5
      [] w = "weak" -> 4
      [] w = "signal" -> 6
      [] w = "the" -> 3
      [] w = "Approve" -> 7
      [] w = "approve " -> 8
      [] w = "approve" -> 7
      [] w = "reject" -> 6
      [] w = "no" -> 2
      [] OTHER -> 4

Lower(w) ==
    CASE w = "Strong" -> "strong"
      [] w = "Approve" -> "approve"
      [] w = "approve " -> "approve"
      [] OTHER -> w

validate_decision(schema, v) ==
    CASE schema.type = "boolean" -> v.type = "bool"
      [] schema.type = "categorical" ->
            IF schema.allow_multiple
            THEN v.type = "list" /\ \A i \in 1..Len(v.l) : v.l[i] \in Range(schema.categories)
            ELSE v.type = "str" /\ v.s \in Range(schema.categories)
      [] schema.type = "scalar" ->
            /\ v.type = "num"
            /\ schema.min_value * v.den <= v.num
            /\ v.num <= schema.max_value * v.den
      [] schema.type = "freeform" ->
            /\ v.type = "str"
            /\ schema.min_length # None => WordLen(v.s) >= Get(schema.min_length)
            /\ schema.max_length # None => WordLen(v.s) <= Get(schema.max_length)
      [] OTHER -> FALSE

(***************************************************************************)
(* Alignment thresholds (defaults of AlignmentThresholds), in hundredths.  *)
(***************************************************************************)
soft_disagreement_confidence_spread == 20
hard_disagreement_confidence_spread == 40
insufficient_signal_avg_confidence == 50
scalar_decision_tolerance_ratio == 10
reasoning_overlap_threshold == 30
evidence_threshold == 50

\* AlignmentThresholds(): the fields the analyser reads
AlignmentThresholds ==
    [soft_disagreement_confidence_spread |-> soft_disagreement_confidence_spread,
     hard_disagreement_confidence_spread |-> hard_disagreement_confidence_spread,
     insufficient_signal_avg_confidence |-> insufficient_signal_avg_confidence,
     scalar_decision_tolerance_ratio |-> scalar_decision_tolerance_ratio,
     reasoning_overlap_threshold |-> reasoning_overlap_threshold]

\* a configuration dictionary without keys
NoConfig == [key \in {} |-> 0]

\* config.get(key, default)
ConfigGet(cfg, key, default) == IF key \in DOMAIN cfg THEN cfg[key] ELSE default

\* AlignmentThresholds.from_config(config): the keys it reads; any other key
\* of the dictionary is dropped
from_config(cfg) ==
    [soft_disagreement_confidence_spread |->
        ConfigGet(cfg, "soft_disagreement_confidence_spread", soft_disagreement_confidence_spread),
     hard_disagreement_confidence_spread |->
        ConfigGet(cfg, "hard_disagreement_confidence_spread", hard_disagreement_confidence_spread),
     insufficient_signal_avg_confidence |->
        ConfigGet(cfg, "insufficient_signal_avg_confidence", insufficient_signal_avg_confidence),
     scalar_decision_tolerance_ratio |->
        ConfigGet(cfg, "scalar_decision_tolerance_ratio", scalar_decision_tolerance_ratio),
     reasoning_overlap_threshold |->
        ConfigGet(cfg, "reasoning_overlap_threshold", reasoning_overlap_threshold)]

(***************************************************************************)
(* Rationales are sequences of whitespace-separated words.                 *)
(***************************************************************************)
(***************************************************************************)
(* AlignmentAnalyzer (core/resolution.py).  ds is the list of              *)
(* AgentDecision records, in input order.                                  *)
(***************************************************************************)
DecisionValues(ds) == [i \in 1..Len(ds) |-> ds[i].decision_value]
DecisionStrings(ds) == [i \in 1..Len(ds) |-> Str(ds[i].decision_value)]
Confidences(ds) == [i \in 1..Len(ds) |-> ds[i].confidence]

Abs(x) == IF x < 0 THEN -x ELSE x

\* the scalar branch: all(abs(d - mean) <= tolerance), with the values whole
\* numbers and the ratio in hundredths:
\* |d - S/n| <= range * ratio / 100  iff  100 * |n*d - S| <= range * ratio * n
scalar_decisions_within_tolerance(schema, ds) ==
    LET n == Len(ds)
        S == SumSeq([i \in 1..n |-> ds[i].decision_value.num])
        decision_range == schema.max_value - schema.min_value
    IN  \A i \in 1..n :
            100 * Abs(n * ds[i].decision_value.num - S)
                <= decision_range * thresholds.scalar_decision_tolerance_ratio * n

_analyze_decision_agreement(schema, ds) ==
    CASE schema.type = "boolean" -> Cardinality(Range(DecisionValues(ds))) = 1
      [] schema.type = "categorical" -> Cardinality(Range(DecisionStrings(ds))) = 1
      [] schema.type = "scalar" ->
            IF Len(ds) < 2 THEN TRUE ELSE scalar_decisions_within_tolerance(schema, ds)
      [] schema.type = "freeform" ->
            Cardinality({Lower(Str(ds[i].decision_value)) : i \in 1..Len(ds)}) = 1
      [] OTHER -> Cardinality(Range(DecisionStrings(ds))) = 1

\* average is the exact quotient total / count (hundredths)
_calculate_confidence_metrics(ds) ==
    LET cs == Confidences(ds) IN
    IF Len(cs) = 1
    THEN [total |-> cs[1], count |-> 1, spread |-> 0, min |-> cs[1], max |-> cs[1]]
    ELSE [total |-> SumSeq(cs), count |-> Len(cs),
          spread |-> MaxOf(Range(cs)) - MinOf(Range(cs)),
          min |-> MinOf(Range(cs)), max |-> MaxOf(Range(cs))]

\* the agent names filed under decision string k, in input order
Supporters(ds, k) ==
    AgentNamesOf(SelectSeq(ds, LAMBDA d : Str(d.decision_value) = k))

\* variant: among equally supported decision strings the last one wins
MajorityIndex_last(ds) ==
    LET size == [i \in 1..Len(ds) |-> Len(Supporters(ds, Str(ds[i].decision_value)))]
    IN  CHOOSE i \in 1..Len(ds) :
            /\ \A j \in 1..Len(ds) : size[j] <= size[i]
            /\ \A j \in (i + 1)..Len(ds) :
                    size[j] = size[i] =>
                        Str(ds[j].decision_value) = Str(ds[i].decision_value)

\* index of the first decision whose string has the largest supporter list
\* (max over an insertion-ordered dict returns the first maximal item)
MajorityIndex(ds) ==
    LET size == [i \in 1..Len(ds) |-> Len(Supporters(ds, Str(ds[i].decision_value)))]
    IN  CHOOSE i \in 1..Len(ds) :
            /\ \A j \in 1..Len(ds) : size[j] <= size[i]
            /\ \A j \in 1..(i - 1) : size[j] < size[i]

_identify_dissenting_agents(schema, ds) ==
    IF Len(ds) < 2 THEN <<>>
    ELSE LET majority_decision == Str(ds[MajorityIndex(ds)].decision_value)
             majority_agents == Range(Supporters(ds, majority_decision))
         IN  AgentNamesOf(SelectSeq(ds, LAMBDA d : d.agent_name \notin majority_agents))

Keywords(d) ==
    {Lower(d.rationale[i]) : i \in {j \in 1..Len(d.rationale) : WordLen(d.rationale[j]) > 3}}

\* _calculate_reasoning_overlap(ds) < self.thresholds.reasoning_overlap_threshold
reasoning_overlap_below_threshold(ds) ==
    IF Len(ds) < 2 THEN FALSE
    ELSE LET sets == {Keywords(ds[i]) : i \in 1..Len(ds)}
             all_keywords == UNION sets
             common_keywords == {w \in all_keywords : \A k \in sets : w \in k}
         IN  IF all_keywords = {} THEN 0 < thresholds.reasoning_overlap_threshold
             ELSE 100 * Cardinality(common_keywords)
                      < thresholds.reasoning_overlap_threshold * Cardinality(all_keywords)

\* _calculate_evidence_consistency(ds) < 0.5, where the consistency is
\* max(0, 1 - stdev/mean) with the sample standard deviation:
\* stdev/mean > 1/2  iff  4 * sum((n*x - S)^2) > (n - 1) * S^2
evidence_consistency_below_threshold(ds) ==
    IF Len(ds) < 2 THEN FALSE
    ELSE LET lens == [i \in 1..Len(ds) |-> Len(ds[i].evidence)]
             n == Len(lens)
             S == SumSeq(lens)
             dev == [i \in 1..n |-> (n * lens[i] - S) * (n * lens[i] - S)]
         IN  IF S = 0 THEN FALSE
             ELSE (100 - evidence_threshold) * (100 - evidence_threshold) * (n - 1) * S * S
                      < 100 * 100 * SumSeq(dev)

_detect_disagreement_areas(schema, ds, metrics) ==
    (IF Cardinality(Range(DecisionStrings(ds))) > 1 THEN <<"primary_decision">> ELSE <<>>)
    \o (IF metrics.spread > thresholds.soft_disagreement_confidence_spread
        THEN <<"confidence_levels">> ELSE <<>>)
    \o (IF reasoning_overlap_below_threshold(ds) THEN <<"reasoning_approach">> ELSE <<>>)
    \o (IF evidence_consistency_below_threshold(ds) THEN <<"evidence_quality">> ELSE <<>>)

\* variant: the consensus breadth is taken over the number of decisions
_calculate_alignment_score_all_agents(decision_agreement, metrics, dissenting_agents) ==
    LET d == Len(dissenting_agents)
        consistency == IF 100 - metrics.spread > 0 THEN 100 - metrics.spread ELSE 0
        den == 1000 * metrics.count
        raw == ((IF decision_agreement THEN 400 ELSE 0) + 3 * consistency) * metrics.count
                   + 300 * (metrics.count - d)
    IN  [num |-> IF raw > den THEN den ELSE IF raw < 0 THEN 0 ELSE raw, den |-> den]

\* 0.4*agree + 0.3*max(0, 1 - spread) + 0.3*(1 - d/(d+1)), clamped to [0,1];
\* with the spread in hundredths the score is num / den, den = 1000*(d+1)
_calculate_alignment_score(decision_agreement, metrics, dissenting_agents) ==
    LET d == Len(dissenting_agents)
        consistency == IF 100 - metrics.spread > 0 THEN 100 - metrics.spread ELSE 0
        den == 1000 * (d + 1)
        raw == ((IF decision_agreement THEN 400 ELSE 0) + 3 * consistency) * (d + 1) + 300
    IN  [num |-> IF raw > den THEN den ELSE IF raw < 0 THEN 0 ELSE raw, den |-> den]

\* variant: the disagreement tests run before the low-confidence test
_determine_alignment_state_hard_first(decision_agreement, metrics, disagreement_areas, dissenting_agents) ==
    IF \/ ~decision_agreement
       \/ metrics.spread > thresholds.hard_disagreement_confidence_spread
       \/ Len(disagreement_areas) >= 3
    THEN "hard_disagreement"
    ELSE IF metrics.total < thresholds.insufficient_signal_avg_confidence * metrics.count
    THEN "insufficient_signal"
    ELSE IF \/ metrics.spread > thresholds.soft_disagreement_confidence_spread
            \/ Len(disagreement_areas) >= 1
    THEN "soft_disagreement"
    ELSE "full_alignment"

\* variant: a single disagreement area does not yet count as soft disagreement
_determine_alignment_state_two_areas(decision_agreement, metrics, disagreement_areas, dissenting_agents) ==
    IF metrics.total < thresholds.insufficient_signal_avg_confidence * metrics.count
    THEN "insufficient_signal"
    ELSE IF \/ ~decision_agreement
            \/ metrics.spread > thresholds.hard_disagreement_confidence_spread
            \/ Len(disagreement_areas) >= 3
    THEN "hard_disagreement"
    ELSE IF \/ metrics.spread > thresholds.soft_disagreement_confidence_spread
            \/ Len(disagreement_areas) >= 2
    THEN "soft_disagreement"
    ELSE "full_alignment"

_determine_alignment_state(decision_agreement, metrics, disagreement_areas, dissenting_agents) ==
    IF metrics.total < thresholds.insufficient_signal_avg_confidence * metrics.count
    THEN "insufficient_signal"
    ELSE IF \/ ~decision_agreement
            \/ metrics.spread > thresholds.hard_disagreement_confidence_spread
            \/ Len(disagreement_areas) >= 3
    THEN "hard_disagreement"
    ELSE IF \/ metrics.spread > thresholds.soft_disagreement_confidence_spread
            \/ Len(disagreement_areas) >= 1
    THEN "soft_disagreement"
    ELSE "full_alignment"

\* variant: the score and the average are added instead of multiplied
_calculate_consensus_strength_sum(decision_agreement, metrics, alignment_score) ==
    [num |-> alignment_score.num * metrics.count * 100 + alignment_score.den * metrics.total,
     den |-> alignment_score.den * metrics.count * 100]

\* alignment_score * average, as an exact quotient (value in [0,1])
_calculate_consensus_strength(decision_agreement, metrics, alignment_score) ==
    [num |-> alignment_score.num * metrics.total,
     den |-> alignment_score.den * metrics.count * 100]

\* {d.agent_name: d.confidence for d in agent_decisions}: a later decision
\* of the same agent name overwrites an earlier one
confidence_distribution(ds) ==
    [nm \in {ds[i].agent_name : i \in 1..Len(ds)} |->
        ds[MaxOf({i \in 1..Len(ds) : ds[i].agent_name = nm})].confidence]

\* analyze_alignment for len(agent_decisions) >= 2 (it raises ValueError below that)
analyze_alignment(schema, ds) ==
    LET decision_agreement == _analyze_decision_agreement(schema, ds)
        metrics == _calculate_confidence_metrics(ds)
        dissenting_agents == _identify_dissenting_agents(schema, ds)
        disagreement_areas == _detect_disagreement_areas(schema, ds, metrics)
        alignment_score ==
            _calculate_alignment_score(decision_agreement, metrics, dissenting_agents)
    IN  [state |-> _determine_alignment_state(decision_agreement, metrics,
                                              disagreement_areas, dissenting_agents),
         alignment_score |-> alignment_score,
         decision_agreement |-> decision_agreement,
         confidence_spread |-> metrics.spread,
         confidence_distribution |-> confidence_distribution(ds),
         avg_confidence |-> [num |-> metrics.total, den |-> metrics.count],
         dissenting_agents |-> dissenting_agents,
         disagreement_areas |-> disagreement_areas,
         consensus_strength |->
            _calculate_consensus_strength(decision_agreement, metrics, alignment_score)]

\* variant: every state other than full alignment asks for review
requires_human_review_any_disagreement(summary) ==
    IF summary.state # "full_alignment"
    THEN <<TRUE, "Agents have fundamental disagreements requiring human review">>
    ELSE <<FALSE, NULL>>

\* AlignmentAnalyzer.requires_human_review: <<needs_review, reason>>
requires_human_review(summary) ==
    IF summary.state = "hard_disagreement"
    THEN <<TRUE, "Agents have fundamental disagreements requiring human review">>
    ELSE <<FALSE, NULL>>

(***************************************************************************)
(* DisagreementResolver (core/resolution.py).                              *)
(***************************************************************************)
SumConfWhere(ds, v) ==
    SumSeq([i \in 1..Len(ds) |-> IF ds[i].decision_value = v THEN ds[i].confidence ELSE 0])

_resolve_boolean_decision(ds, summary) ==
    LET weighted_true == SumConfWhere(ds, BoolVal(TRUE))
        weighted_false == SumConfWhere(ds, BoolVal(FALSE))
        decision == BoolVal(weighted_true > weighted_false)
        supporting_decisions == SelectSeq(ds, LAMBDA d : d.decision_value = decision)
        top == Take(supporting_decisions, 3)
        evidence == Concat([i \in 1..Len(top) |-> Take(top[i].evidence, 2)])
    IN  [decision |-> decision, confidence |-> summary.consensus_strength,
         evidence |-> Take(evidence, 5)]

\* index of the first decision of maximal confidence (max(..., key=confidence))
HighestConfidenceIndex(ds) ==
    CHOOSE i \in 1..Len(ds) :
        /\ \A j \in 1..Len(ds) : ds[j].confidence <= ds[i].confidence
        /\ \A j \in 1..(i - 1) : ds[j].confidence < ds[i].confidence

_resolve_highest_confidence_decision(ds, summary) ==
    LET highest == ds[HighestConfidenceIndex(ds)]
    IN  [decision |-> highest.decision_value, confidence |-> summary.consensus_strength,
         evidence |-> highest.evidence]

\* evidence.extend(d.evidence[:2]) for each d of the list, in order
EvidenceOfEach(ds) == Concat([i \in 1..Len(ds) |-> Take(ds[i].evidence, 2)])

\* category_scores[str(decision_value)]
CategoryScore(ds, k) ==
    SumSeq([i \in 1..Len(ds) |->
               IF Str(ds[i].decision_value) = k THEN ds[i].confidence ELSE 0])

\* max(category_scores.items(), key=score) over the insertion-ordered dict:
\* the first inserted category of maximal score
_resolve_categorical_decision(ds, summary) ==
    LET score == [i \in 1..Len(ds) |-> CategoryScore(ds, Str(ds[i].decision_value))]
        best == CHOOSE i \in 1..Len(ds) :
                    /\ \A j \in 1..Len(ds) : score[j] <= score[i]
                    /\ \A j \in 1..(i - 1) : score[j] < score[i]
        decision == Str(ds[best].decision_value)
        supporting_decisions == SelectSeq(ds, LAMBDA d : Str(d.decision_value) = decision)
    IN  [decision |-> StrVal(decision), confidence |-> summary.consensus_strength,
         evidence |-> Take(EvidenceOfEach(supporting_decisions), 5)]

\* sorted(agent_decisions, key=confidence, reverse=True): stable
SortedByConfidence(ds) ==
    LET rank == [i \in 1..Len(ds) |->
                    Cardinality({j \in 1..Len(ds) :
                        \/ ds[j].confidence > ds[i].confidence
                        \/ ds[j].confidence = ds[i].confidence /\ j < i})]
    IN  [k \in 1..Len(ds) |-> ds[CHOOSE i \in 1..Len(ds) : rank[i] = k - 1]]

\* the confidence-weighted average sum(v * c) / sum(c), the plain mean when
\* the total weight is 0; whole-valued decisions, exact quotient
_resolve_scalar_decision(ds, summary) ==
    LET total_weight == SumSeq(Confidences(ds))
        decision ==
            IF total_weight = 0
            THEN NumVal(SumSeq([i \in 1..Len(ds) |-> ds[i].decision_value.num]), Len(ds))
            ELSE NumVal(SumSeq([i \in 1..Len(ds) |->
                                   ds[i].decision_value.num * ds[i].confidence]),
                        total_weight)
    IN  [decision |-> decision, confidence |-> summary.consensus_strength,
         evidence |-> Take(EvidenceOfEach(Take(SortedByConfidence(ds), 3)), 5)]

_resolve_freeform_decision(ds, summary) ==
    LET highest == ds[HighestConfidenceIndex(ds)]
    IN  [decision |-> StrVal(Str(highest.decision_value)),
         confidence |-> summary.consensus_strength,
         evidence |-> Take(EvidenceOfEach(ds), 5)]

resolve_disagreement(schema, ds, summary) ==
    CASE schema.type = "boolean" -> _resolve_boolean_decision(ds, summary)
      [] schema.type = "categorical" -> _resolve_categorical_decision(ds, summary)
      [] schema.type = "scalar" -> _resolve_scalar_decision(ds, summary)
      [] schema.type = "freeform" -> _resolve_freeform_decision(ds, summary)
      [] OTHER -> _resolve_highest_confidence_decision(ds, summary)

(***************************************************************************)
(* HITL escalation builder (core/hitl.py).                                 *)
(***************************************************************************)
\* a mapping that ignores the disagreement areas of a soft disagreement
_determine_escalation_reason_state_only(summary) ==
    IF summary.state = "hard_disagreement" THEN "hard_disagreement"
    ELSE IF summary.state \in {"insufficient_signal", "soft_disagreement"}
    THEN "low_confidence"
    ELSE "custom_rule"

_determine_escalation_reason(summary) ==
    IF summary.state = "hard_disagreement" THEN "hard_disagreement"
    ELSE IF summary.state = "insufficient_signal" THEN "low_confidence"
    ELSE IF summary.state = "soft_disagreement"
    THEN (IF "evidence_quality" \in Range(summary.disagreement_areas)
          THEN "inconsistent_evidence" ELSE "low_confidence")
    ELSE "custom_rule"

\* the HITLRequest(...) build_hitl_request constructs
HITLRequest(evaluation_result, summary) ==
    [task_id |-> evaluation_result.task_id,
     alignment_state |-> summary.state,
     alignment_score |-> summary.alignment_score,
     escalation_reason |-> _determine_escalation_reason(summary),
     agent_decisions |-> evaluation_result.agent_decisions,
     dissenting_agents |-> summary.dissenting_agents,
     metadata |-> [confidence_spread |-> summary.confidence_spread,
                   avg_confidence |-> summary.avg_confidence,
                   disagreement_areas |-> summary.disagreement_areas,
                   consensus_strength |-> summary.consensus_strength,
                   agent_count |-> Len(evaluation_result.agent_decisions)]]

\* a builder that escalates hard disagreements only
build_hitl_request_hard_only(evaluation_result, summary) ==
    IF ~evaluation_result.requires_human_review \/ summary.state # "hard_disagreement"
    THEN None
    ELSE Some(HITLRequest(evaluation_result, summary))

build_hitl_request(evaluation_result, summary) ==
    IF ~evaluation_result.requires_human_review THEN None
    ELSE Some(HITLRequest(evaluation_result, summary))

(***************************************************************************)
(* The agents: external collaborators.  An evaluate call either returns an *)
(* AgentDecision or raises; the decision carries the agent's name, and its *)
(* value and confidence are free.  AgentDecision itself only checks that   *)
(* the confidence is in [0,1]; decision_value is Any.                      *)
(***************************************************************************)
AgentNames == <<"A", "B", "C", "D", "E">>

FailureKinds == {"transient", "permanent", "invalid_task"}

ValueInputs == {BoolVal(TRUE), BoolVal(FALSE), StrVal("maybe")}
\* multiples of 0.25: the sums, differences and means the analyser and the
\* resolver take of them are the same in binary floating point and exactly
ConfidenceInputs == {25, 75}

RationaleOf(i) ==
    IF i % 3 = 0 THEN <<"weak", "signal">> ELSE <<"Strong", "evidence", "found">>
EvidenceOf(i) ==
    IF i % 3 = 0 THEN <<>> ELSE <<"e1", "e2", "e3">>

DecisionInputs(i) ==
    {[agent_name |-> agents[i], decision_value |-> v, confidence |-> c,
      rationale |-> RationaleOf(i), evidence |-> EvidenceOf(i)] :
        v \in ValueInputs, c \in ConfidenceInputs}

(***************************************************************************)
(* MultiAgentEvaluator (core/evaluator.py).                                *)
(***************************************************************************)
\* __init__(..., timeout_seconds: int = 30)
timeout_seconds_default == 30

NoError == [type |-> "none", reason |-> "", failures |-> <<>>]

\* the checks of _validate_task that a constructed EvaluationTask can fail
_validate_task(t) ==
    /\ t.task_id # ""
    /\ t.task_type # ""
    /\ t.evaluation_criteria # ""
    /\ t.context # {}

\* a join that puts the latest decision first
AppendDecision_prepend(decs, d) == <<d>> \o decs

\* agent_decisions.append(output)
AppendDecision(decs, d) == Append(decs, d)

\* a failure list that keeps the latest failure only
AppendFailure_latest(fails, name, kind) ==
    <<[agent_name |-> name, attempts |-> max_retries, last_error |-> kind]>>

\* failed_agents.append((agent.role.name, str(e))), e being the RuntimeError
\* "Agent {name} failed after {max_retries} attempts: {last_error}"
AppendFailure(fails, name, kind) ==
    Append(fails, [agent_name |-> name, attempts |-> max_retries, last_error |-> kind])

\* a retry branch taken for transient failures only
ShouldRetry_transient(kind, att) == kind = "transient" /\ att < max_retries - 1

\* the guard of the retry branch: if attempt < self.max_retries - 1
ShouldRetry(kind, att) == att < max_retries - 1

\* a fan-out: calling agent i puts every agent from i on in flight
Dispatched_fan_out(i) == i..Len(agents)

\* the loop "for agent in self.agents" calls _execute_agent_with_retry
\* synchronously: the agents in flight once agent i has been called
Dispatched(i) == {i}

\* a review flag that ignores enable_hitl
ReviewFlag_ungated(needs_review) == needs_review

\* requires_human_review=needs_review and self.enable_hitl
ReviewFlag(needs_review) == needs_review /\ enable_hitl

\* evaluate from the end of the loop of _execute_agents on
evaluate_tail(decs, fails) ==
    IF decs = <<>>
    THEN [result |-> None,
          raised |-> [type |-> "RuntimeError", reason |-> "all_agents_failed",
                      failures |-> fails]]
    ELSE IF Len(decs) < 2
    THEN [result |-> None,
          raised |-> [type |-> "ValueError", reason |-> "insufficient_decisions",
                      failures |-> <<>>]]
    ELSE LET summary == analyze_alignment(task.decision_schema, decs)
             synth == resolve_disagreement(task.decision_schema, decs, summary)
             review == requires_human_review(summary)
         IN  [result |-> Some([task_id |-> task.task_id,
                               synthesized_decision |-> synth.decision,
                               confidence |-> synth.confidence,
                               evidence |-> synth.evidence,
                               agent_decisions |-> decs,
                               alignment_summary |-> summary,
                               requires_human_review |-> ReviewFlag(review[1]),
                               review_reason |-> review[2]]),
              raised |-> NoError]

TaskInputs ==
    {[task_id |-> "t1", task_type |-> "test", evaluation_criteria |-> "criteria",
      context |-> c, decision_schema |-> BooleanDecisionSchema] : c \in {{}, {"k"}}}

\* no call with binary64 arguments has been made
NoFloatCalls ==
    /\ sum_builtin = "sequential"
    /\ float_decisions = <<>>
    /\ float_permuted = <<>>
    /\ float_decision = None
    /\ float_decision_permuted = None
    /\ float_agreement = None

\* no schema constructor has been called
NoSchemaCalls ==
    /\ schema_request = NULL
    /\ schema_object = None
    /\ schema_raised = NoError

Init ==
    /\ \E n \in 1..MaxAgents : agents = SubSeq(AgentNames, 1, n)
    /\ enable_hitl \in BOOLEAN
    /\ max_retries \in 1..MaxRetriesBound
    /\ timeout_seconds = timeout_seconds_default
    /\ task \in TaskInputs
    /\ pc = "idle"
    /\ agentIdx = 0
    /\ attempt = 0
    /\ last_error = NULL
    /\ transient_only = TRUE
    /\ inflight = {}
    /\ elapsed = 0
    /\ agent_decisions = <<>>
    /\ failed_agents = <<>>
    /\ retry_success = {}
    /\ result = None
    /\ raised = NoError
    /\ hitl_pc = "not_called"
    /\ hitl_summary = None
    /\ hitl_request = None
    /\ threshold_config = NoConfig
    /\ thresholds = AlignmentThresholds
    /\ alignment_summary = None
    /\ synthesis = None
    /\ NoFloatCalls
    /\ NoSchemaCalls
    /\ events = <<>>

config == <<agents, enable_hitl, max_retries, timeout_seconds, task, threshold_config,
            thresholds>>
hitl == <<hitl_pc, hitl_summary, hitl_request>>
direct == <<alignment_summary, synthesis>>
construction == <<schema_request, schema_object, schema_raised>>
logging == <<events>>
binary64 == <<sum_builtin, float_decisions, float_permuted, float_decision,
              float_decision_permuted, float_agreement>>

\* _execute_agent_with_retry(agent i) up to its first agent.evaluate(task)
CallAgent(i) ==
    /\ pc' = "inflight"
    /\ agentIdx' = i
    /\ attempt' = 0
    /\ last_error' = NULL
    /\ transient_only' = TRUE
    /\ inflight' = Dispatched(i)
    /\ elapsed' = 0

\* after agent agentIdx is done: the next agent, or the rest of evaluate
Advance(decs, fails) ==
    /\ agent_decisions' = decs
    /\ failed_agents' = fails
    /\ IF agentIdx < Len(agents)
       THEN /\ CallAgent(agentIdx + 1)
            /\ UNCHANGED <<result, raised>>
       ELSE /\ pc' = "done"
            /\ attempt' = 0
            /\ last_error' = NULL
            /\ transient_only' = TRUE
            /\ inflight' = {}
            /\ elapsed' = 0
            /\ UNCHANGED agentIdx
            /\ LET out == evaluate_tail(decs, fails)
               IN  /\ result' = out.result
                   /\ raised' = out.raised

\* evaluate(task) up to the first agent call
Evaluate ==
    /\ pc = "idle"
    /\ IF _validate_task(task)
       THEN /\ CallAgent(1)
            /\ UNCHANGED <<result, raised>>
       ELSE /\ pc' = "done"
            /\ raised' = [type |-> "ValueError", reason |-> "invalid_task",
                          failures |-> <<>>]
            /\ UNCHANGED <<agentIdx, attempt, last_error, transient_only, inflight,
                           elapsed, result>>
    /\ UNCHANGED <<agent_decisions, failed_agents, retry_success>>
    /\ UNCHANGED <<binary64, config, logging, construction, hitl, direct>>

\* agent.evaluate(task) has not returned when timeout_seconds have passed:
\* nothing in evaluate watches the clock, the call stays in flight
DeadlinePasses ==
    /\ pc = "inflight"
    /\ elapsed <= timeout_seconds
    /\ elapsed' = timeout_seconds + 1
    /\ UNCHANGED <<pc, agentIdx, attempt, last_error, transient_only, inflight,
                   agent_decisions, failed_agents, retry_success, result, raised>>
    /\ UNCHANGED <<binary64, config, logging, construction, hitl, direct>>

\* agent.evaluate(task) returns d
AgentReturn(d) ==
    /\ pc = "inflight"
    /\ Advance(AppendDecision(agent_decisions, d), failed_agents)
    /\ UNCHANGED retry_success
    /\ UNCHANGED <<binary64, config, logging, construction, hitl, direct>>

\* AgentReturn, with the history of the agents that returned on their last
\* attempt (attempt max_retries) after transient failures only
AgentReturnAfterRetries(d) ==
    /\ pc = "inflight"
    /\ Advance(AppendDecision(agent_decisions, d), failed_agents)
    /\ retry_success' = IF attempt = max_retries - 1 /\ transient_only
                        THEN retry_success \cup {agentIdx} ELSE retry_success
    /\ UNCHANGED <<binary64, config, logging, construction, hitl, direct>>

\* agent.evaluate(task) raises an exception of the given kind
AgentRaise(kind) ==
    /\ pc = "inflight"
    /\ IF ShouldRetry(kind, attempt)
       THEN /\ pc' = "sleep"
            /\ last_error' = kind
            /\ transient_only' = (transient_only /\ kind = "transient")
            /\ inflight' = {}
            /\ elapsed' = 0
            /\ UNCHANGED <<agentIdx, attempt, agent_decisions, failed_agents,
                           result, raised>>
       ELSE Advance(agent_decisions, AppendFailure(failed_agents, agents[agentIdx], kind))
    /\ UNCHANGED retry_success
    /\ UNCHANGED <<binary64, config, logging, construction, hitl, direct>>

\* time.sleep(0.5 * (attempt + 1)) returns and the loop calls the agent again
BackoffDone ==
    /\ pc = "sleep"
    /\ pc' = "inflight"
    /\ attempt' = attempt + 1
    /\ inflight' = Dispatched(agentIdx)
    /\ elapsed' = 0
    /\ UNCHANGED <<agentIdx, last_error, transient_only, agent_decisions,
                   failed_agents, retry_success, result, raised>>
    /\ UNCHANGED <<binary64, config, logging, construction, hitl, direct>>

\* create_hitl_request(result) on the result evaluate returned
CreateHitlRequest ==
    /\ pc = "done"
    /\ result # None
    /\ hitl_pc = "not_called"
    /\ hitl_pc' = "returned"
    /\ hitl_summary' = Some(Get(result).alignment_summary)
    /\ hitl_request' = build_hitl_request(Get(result), Get(result).alignment_summary)
    /\ UNCHANGED <<pc, agentIdx, attempt, last_error, transient_only, inflight,
                   elapsed, agent_decisions, failed_agents, retry_success, result,
                   raised>>
    /\ UNCHANGED <<binary64, config, logging, construction, direct>>

Next ==
    \/ Evaluate
    \/ DeadlinePasses
    \/ pc = "inflight" /\ \E d \in DecisionInputs(agentIdx) : AgentReturn(d)
    \/ \E kind \in FailureKinds : AgentRaise(kind)
    \/ BackoffDone
    \/ CreateHitlRequest

Spec == Init /\ [][Next]_vars

(***************************************************************************)
(* The orchestrator with the history of retried successes recorded.        *)
(***************************************************************************)
NextRetry ==
    \/ Evaluate
    \/ DeadlinePasses
    \/ pc = "inflight" /\ \E d \in DecisionInputs(agentIdx) : AgentReturnAfterRetries(d)
    \/ \E kind \in FailureKinds : AgentRaise(kind)
    \/ BackoffDone

SpecRetry == Init /\ [][NextRetry]_vars

(***************************************************************************)
(* The orchestrator with the records it passes to the logger recorded.     *)
(***************************************************************************)
\* logger.<level>(name, extra={"agent_name": ...}); NULL when the record
\* carries no agent name
Event(name, agent_name) == [event |-> name, agent_name |-> agent_name]

\* variant: the partial failure is reported before the check that every
\* agent failed
EventsAfterAgent_partial_first ==
    IF agentIdx < Len(agents)
    THEN <<Event("executing_agent", agents[agentIdx + 1])>>
    ELSE (IF failed_agents' # <<>>
          THEN <<Event("partial_agent_failure", NULL)>> ELSE <<>>)
         \o (IF result' # None
             THEN <<Event("multi_agent_evaluation_completed", NULL)>>
             ELSE <<Event("multi_agent_evaluation_failed", NULL)>>)

\* the records emitted once agent agentIdx is done: "executing_agent" of the
\* next agent, or those of the rest of evaluate
EventsAfterAgent ==
    IF agentIdx < Len(agents)
    THEN <<Event("executing_agent", agents[agentIdx + 1])>>
    ELSE (IF agent_decisions' # <<>> /\ failed_agents' # <<>>
          THEN <<Event("partial_agent_failure", NULL)>> ELSE <<>>)
         \o (IF result' # None
             THEN <<Event("multi_agent_evaluation_completed", NULL)>>
             ELSE <<Event("multi_agent_evaluation_failed", NULL)>>)

EvaluateLogged ==
    /\ pc = "idle"
    /\ IF _validate_task(task)
       THEN /\ CallAgent(1)
            /\ events' = <<Event("multi_agent_evaluation_started", NULL),
                           Event("executing_agent", agents[1])>>
            /\ UNCHANGED <<result, raised>>
       ELSE /\ pc' = "done"
            /\ raised' = [type |-> "ValueError", reason |-> "invalid_task",
                          failures |-> <<>>]
            /\ events' = <<Event("multi_agent_evaluation_started", NULL),
                           Event("multi_agent_evaluation_failed", NULL)>>
            /\ UNCHANGED <<agentIdx, attempt, last_error, transient_only, inflight,
                           elapsed, result>>
    /\ UNCHANGED <<agent_decisions, failed_agents, retry_success>>
    /\ UNCHANGED <<binary64, config, construction, hitl, direct>>

AgentReturnLogged(d) ==
    /\ pc = "inflight"
    /\ Advance(AppendDecision(agent_decisions, d), failed_agents)
    /\ events' = events \o EventsAfterAgent
    /\ UNCHANGED retry_success
    /\ UNCHANGED <<binary64, config, construction, hitl, direct>>

AgentRaiseLogged(kind) ==
    /\ pc = "inflight"
    /\ IF ShouldRetry(kind, attempt)
       THEN /\ pc' = "sleep"
            /\ last_error' = kind
            /\ transient_only' = (transient_only /\ kind = "transient")
            /\ inflight' = {}
            /\ elapsed' = 0
            /\ events' = Append(events, Event("agent_retry", agents[agentIdx]))
            /\ UNCHANGED <<agentIdx, attempt, agent_decisions, failed_agents,
                           result, raised>>
       ELSE /\ Advance(agent_decisions,
                       AppendFailure(failed_agents, agents[agentIdx], kind))
            /\ events' = Append(events, Event("agent_execution_failed", agents[agentIdx]))
                             \o EventsAfterAgent
    /\ UNCHANGED retry_success
    /\ UNCHANGED <<binary64, config, construction, hitl, direct>>

\* one decision per agent: the records do not depend on the decision returned
LoggedDecisionInputs(i) ==
    {d \in DecisionInputs(i) : d.decision_value = BoolVal(TRUE) /\ d.confidence = 75}

NextEvents ==
    \/ EvaluateLogged
    \/ pc = "inflight" /\ \E d \in LoggedDecisionInputs(agentIdx) : AgentReturnLogged(d)
    \/ \E kind \in FailureKinds : AgentRaiseLogged(kind)
    \/ BackoffDone

SpecEvents == Init /\ [][NextEvents]_vars

(***************************************************************************)
(* build_hitl_request as a function of its two arguments: any caller may   *)
(* pass it any EvaluationResult together with any AlignmentSummary.        *)
(***************************************************************************)
AlignmentStates ==
    {"full_alignment", "soft_disagreement", "hard_disagreement", "insufficient_signal"}

HitlDecisions(n) ==
    [i \in 1..n |-> [agent_name |-> AgentNames[i], decision_value |-> BoolVal(i % 2 = 1),
                     confidence |-> 90, rationale |-> RationaleOf(i),
                     evidence |-> EvidenceOf(i)]]

HitlResultInputs ==
    {[task_id |-> "t1", agent_decisions |-> HitlDecisions(n),
      requires_human_review |-> r,
      review_reason |-> IF r THEN "review requested" ELSE NULL] :
        n \in 2..MaxAgents, r \in BOOLEAN}

HitlSummaryInputs ==
    {[state |-> st, alignment_score |-> [num |-> 1, den |-> 2],
      confidence_spread |-> 0, avg_confidence |-> [num |-> 90, den |-> 1],
      disagreement_areas |-> ar, consensus_strength |-> [num |-> 1, den |-> 2],
      dissenting_agents |-> ds] :
        st \in AlignmentStates,
        ar \in {<<>>, <<"evidence_quality">>, <<"confidence_levels">>},
        ds \in {<<>>, <<"B">>}}

InitHitl ==
    /\ \E r \in HitlResultInputs :
          /\ result = Some(r)
          /\ agents = AgentNamesOf(r.agent_decisions)
          /\ agentIdx = Len(r.agent_decisions)
          /\ agent_decisions = r.agent_decisions
    /\ hitl_summary \in {Some(sm) : sm \in HitlSummaryInputs}
    /\ enable_hitl = TRUE
    /\ max_retries = 1
    /\ timeout_seconds = timeout_seconds_default
    /\ task \in {t \in TaskInputs : _validate_task(t)}
    /\ pc = "done"
    /\ attempt = 0
    /\ last_error = NULL
    /\ transient_only = TRUE
    /\ inflight = {}
    /\ elapsed = 0
    /\ failed_agents = <<>>
    /\ retry_success = {}
    /\ raised = NoError
    /\ hitl_pc = "not_called"
    /\ hitl_request = None
    /\ threshold_config = NoConfig
    /\ thresholds = AlignmentThresholds
    /\ alignment_summary = None
    /\ synthesis = None
    /\ NoFloatCalls
    /\ NoSchemaCalls
    /\ events = <<>>

\* build_hitl_request(evaluation_result, alignment_summary)
BuildHitlRequest ==
    /\ hitl_pc = "not_called"
    /\ result # None
    /\ hitl_summary # None
    /\ hitl_pc' = "returned"
    /\ hitl_request' = build_hitl_request(Get(result), Get(hitl_summary))
    /\ UNCHANGED <<pc, agentIdx, attempt, last_error, transient_only, inflight,
                   elapsed, agent_decisions, failed_agents, retry_success, result,
                   raised, hitl_summary>>
    /\ UNCHANGED <<binary64, config, logging, construction, direct>>

NextHitl == BuildHitlRequest

SpecHitl == InitHitl /\ [][NextHitl]_vars

(***************************************************************************)
(* analyze_alignment and resolve_disagreement called directly, on any task *)
(* schema, any thresholds and any list of at least two decisions.          *)
(***************************************************************************)
SchemaInputs ==
    {BooleanDecisionSchema,
     CategoricalDecisionSchema(<<"a", "b">>, FALSE),
     CategoricalDecisionSchema(<<"a", "b">>, TRUE),
     ScalarDecisionSchema(0, 10),
     FreeFormDecisionSchema(Some(2), Some(8)),
     CustomDecisionSchema}

\* decision values the schema accepts (any value for a custom schema)
SchemaValues(schema) ==
    CASE schema.type = "boolean" -> {BoolVal(TRUE), BoolVal(FALSE)}
      [] schema.type = "categorical" ->
            IF schema.allow_multiple
            THEN {ListVal(<<"a">>), ListVal(<<"a", "b">>), ListVal(<<"b", "a">>)}
            ELSE {StrVal("a"), StrVal("b")}
      [] schema.type = "scalar" -> {NumVal(4, 1), NumVal(5, 1), NumVal(6, 1)}
      [] schema.type = "freeform" -> {StrVal("Approve"), StrVal("approve ")}
      [] OTHER -> {StrVal("reject"), BoolVal(TRUE)}

AnalyzeConfidences == {0, 50, 100}

AnalyzeEvidenceOf(i) ==
    CASE i = 1 -> <<"e1", "e2", "e3", "e4", "e5", "e6">>
      [] i = 3 -> <<>>
      [] OTHER -> <<"e1", "e2", "e3">>

\* lists of n decisions; with duplicate set, the second decision carries
\* the agent name of the first
DecisionListInputs(schema, n, duplicate) ==
    {[i \in 1..n |->
        [agent_name |-> IF duplicate /\ i = 2 THEN AgentNames[1] ELSE AgentNames[i],
         decision_value |-> f[i][1], confidence |-> f[i][2],
         rationale |-> RationaleOf(i), evidence |-> AnalyzeEvidenceOf(i)]] :
        f \in [1..n -> SchemaValues(schema) \X AnalyzeConfidences]}

\* configuration dictionaries: none, and one that sets every threshold
ThresholdConfigInputs ==
    {NoConfig,
     [key \in {"soft_disagreement_confidence_spread", "hard_disagreement_confidence_spread",
               "insufficient_signal_avg_confidence", "scalar_decision_tolerance_ratio",
               "reasoning_overlap_threshold", "evidence_consistency_threshold"} |->
        CASE key = "soft_disagreement_confidence_spread" -> 25
          [] key = "hard_disagreement_confidence_spread" -> 75
          [] key = "insufficient_signal_avg_confidence" -> 25
          [] key = "scalar_decision_tolerance_ratio" -> 50
          [] key = "reasoning_overlap_threshold" -> 50
          [] OTHER -> 80]}

InitAnalyze ==
    /\ \E schema \in SchemaInputs, n \in 2..MaxAgents, duplicate \in BOOLEAN :
          /\ task = [task_id |-> "t1", task_type |-> "test",
                     evaluation_criteria |-> "criteria", context |-> {"k"},
                     decision_schema |-> schema]
          /\ agent_decisions \in DecisionListInputs(schema, n, duplicate)
          /\ agents = SubSeq(AgentNames, 1, n)
          /\ agentIdx = n
    /\ threshold_config \in ThresholdConfigInputs
    /\ thresholds = from_config(threshold_config)
    /\ alignment_summary = None
    /\ synthesis = None
    /\ enable_hitl = TRUE
    /\ max_retries = 1
    /\ timeout_seconds = timeout_seconds_default
    /\ pc = "done"
    /\ attempt = 0
    /\ last_error = NULL
    /\ transient_only = TRUE
    /\ inflight = {}
    /\ elapsed = 0
    /\ failed_agents = <<>>
    /\ retry_success = {}
    /\ result = None
    /\ raised = NoError
    /\ hitl_pc = "not_called"
    /\ hitl_summary = None
    /\ hitl_request = None
    /\ NoFloatCalls
    /\ NoSchemaCalls
    /\ events = <<>>

orchestrator == <<pc, agentIdx, attempt, last_error, transient_only, inflight, elapsed,
                  agent_decisions, failed_agents, retry_success, result, raised>>

\* analyzer.analyze_alignment(task, agent_decisions)
AnalyzeAlignment ==
    /\ alignment_summary = None
    /\ Len(agent_decisions) >= 2
    /\ alignment_summary' = Some(analyze_alignment(task.decision_schema, agent_decisions))
    /\ UNCHANGED <<synthesis, orchestrator, config, logging, construction, hitl, binary64>>

\* resolver.resolve_disagreement(task, agent_decisions, alignment_summary)
ResolveDisagreement ==
    /\ alignment_summary # None
    /\ synthesis = None
    /\ synthesis' = Some(resolve_disagreement(task.decision_schema, agent_decisions,
                                              Get(alignment_summary)))
    /\ UNCHANGED <<alignment_summary, orchestrator, config, logging, construction, hitl, binary64>>

NextAnalyze ==
    \/ AnalyzeAlignment
    \/ ResolveDisagreement

SpecAnalyze == InitAnalyze /\ [][NextAnalyze]_vars

(***************************************************************************)
(* Binary64 arithmetic on confidences and scalar decision values.         *)
(* A non-negative float is held as the exact count of units of 2^-56 it   *)
(* is worth, written in Limbs digits of base Base, least significant      *)
(* digit first.  Every float of the inputs below is 0 or at least 2^-4,   *)
(* so it is a whole number of units; a result is rounded to Precision     *)
(* significant bits, to nearest with ties to even, as IEEE 754 does.      *)
(***************************************************************************)
LimbBits == 14
Base == 2^LimbBits
Limbs == 5
Precision == 53

Zero == [i \in 1..Limbs |-> 0]
\* the float of the whole number k (1.0 is Base^4 = 2^56 units)
FromInt(k) == [i \in 1..Limbs |-> IF i = Limbs THEN k ELSE 0]

RECURSIVE AddCarry(_, _, _)
AddCarry(a, b, i) ==
    IF i = 1 THEN 0 ELSE (a[i - 1] + b[i - 1] + AddCarry(a, b, i - 1)) \div Base

\* exact a + b
BigAdd(a, b) == [i \in 1..Limbs |-> (a[i] + b[i] + AddCarry(a, b, i)) % Base]

RECURSIVE SubBorrow(_, _, _)
SubBorrow(a, b, i) ==
    IF i = 1 THEN 0
    ELSE IF a[i - 1] - b[i - 1] - SubBorrow(a, b, i - 1) < 0 THEN 1 ELSE 0

\* exact a - b, for a >= b
BigSub(a, b) == [i \in 1..Limbs |-> (a[i] - b[i] - SubBorrow(a, b, i) + Base) % Base]

\* -1, 0 or 1 as a is below, equal to or above b
BigCmp(a, b) ==
    LET D == {i \in 1..Limbs : a[i] # b[i]}
    IN  IF D = {} THEN 0 ELSE IF a[MaxOf(D)] > b[MaxOf(D)] THEN 1 ELSE -1

\* exact |a - b|
BigAbsDiff(a, b) == IF BigCmp(a, b) >= 0 THEN BigSub(a, b) ELSE BigSub(b, a)

RECURSIVE MulCarry(_, _, _)
MulCarry(a, k, i) ==
    IF i = 1 THEN 0 ELSE (a[i - 1] * k + MulCarry(a, k, i - 1)) \div Base

\* exact a * k for a small whole number k
BigMulSmall(a, k) == [i \in 1..Limbs |-> (a[i] * k + MulCarry(a, k, i)) % Base]

RECURSIVE DivRem(_, _, _)
DivRem(a, q, i) ==
    IF i > Limbs THEN 0 ELSE (DivRem(a, q, i + 1) * Base + a[i]) % q

\* floor(a / q) for a small whole number q, and the remainder
BigDivSmall(a, q) == [i \in 1..Limbs |-> (DivRem(a, q, i + 1) * Base + a[i]) \div q]
BigModSmall(a, q) == DivRem(a, q, 1)

RECURSIVE BigSum(_)
BigSum(xs) == IF xs = <<>> THEN Zero ELSE BigAdd(Head(xs), BigSum(Tail(xs)))

RECURSIVE Bits(_)
Bits(n) == IF n = 0 THEN 0 ELSE 1 + Bits(n \div 2)

BitLength(a) ==
    LET nz == {i \in 1..Limbs : a[i] # 0}
    IN  IF nz = {} THEN 0 ELSE LimbBits * (MaxOf(nz) - 1) + Bits(a[MaxOf(nz)])

\* a + rest rounded to Precision significant bits, ties to even, where rest
\* is the part below one unit: 0 none, 1 under a half, 2 a half, 3 over a half
RoundNearestEven(a, rest) ==
    LET s == BitLength(a) - Precision
    IN  IF s <= 0
        THEN IF rest = 3 \/ (rest = 2 /\ a[1] % 2 = 1) THEN BigAdd(a, [Zero EXCEPT ![1] = 1])
             ELSE a
        ELSE LET low == a[1] % (2^s)
                 half == 2^(s - 1)
                 kept_odd == IF s < LimbBits THEN (a[1] \div (2^s)) % 2 = 1 ELSE a[2] % 2 = 1
                 up == \/ low > half
                       \/ low = half /\ (rest # 0 \/ kept_odd)
                 floor == [a EXCEPT ![1] = a[1] - low]
                 step == IF s < LimbBits THEN [Zero EXCEPT ![1] = 2^s] ELSE [Zero EXCEPT ![2] = 1]
             IN  IF up THEN BigAdd(floor, step) ELSE floor

\* the float nearest to a / q
RoundDiv(a, q) ==
    LET r == BigModSmall(a, q)
    IN  RoundNearestEven(BigDivSmall(a, q),
            IF r = 0 THEN 0 ELSE IF 2 * r < q THEN 1 ELSE IF 2 * r = q THEN 2 ELSE 3)

\* float(p / q): the float a decimal literal such as 0.1 = 1/10 denotes
FloatOf(p, q) == RoundDiv(FromInt(p), q)

\* x + y, |x - y| and x * k in binary64
FloatAdd(x, y) == RoundNearestEven(BigAdd(x, y), 0)
FloatAbsDiff(x, y) == RoundNearestEven(BigAbsDiff(x, y), 0)
FloatMulInt(x, k) == RoundNearestEven(BigMulSmall(x, k), 0)

\* statistics.mean: the exact sum divided by the count, rounded once
FloatMean(xs) == RoundDiv(BigSum(xs), Len(xs))

(***************************************************************************)
(* The two float computations of the resolution layer, in binary64.       *)
(***************************************************************************)
\* sum() adding left to right, rounding after every addition (CPython up to 3.11)
RECURSIVE SequentialSum(_)
SequentialSum(xs) ==
    IF xs = <<>> THEN Zero
    ELSE FloatAdd(SequentialSum(SubSeq(xs, 1, Len(xs) - 1)), xs[Len(xs)])

\* the built-in sum over floats; from CPython 3.12 on it carries a
\* compensation term, which for lists this short returns the exact sum
\* rounded once
float_sum(xs) ==
    IF sum_builtin = "compensated" THEN RoundNearestEven(BigSum(xs), 0)
    ELSE SequentialSum(xs)

\* the confidences of the decisions whose decision_value is v, in list order
ConfidencesWhere(ds, v) ==
    LET chosen == SelectSeq(ds, LAMBDA d : d.decision_value = v)
    IN  [i \in 1..Len(chosen) |-> chosen[i].confidence]

\* decision = weighted_true > weighted_false of _resolve_boolean_decision
weighted_vote(ds) ==
    BigCmp(float_sum(ConfidencesWhere(ds, TRUE)), float_sum(ConfidencesWhere(ds, FALSE))) > 0

\* the scalar branch of _analyze_decision_agreement
scalar_agreement(schema, ds) ==
    IF Len(ds) < 2 THEN TRUE
    ELSE LET decisions == [i \in 1..Len(ds) |-> ds[i].decision_value]
             decision_range == schema.max_value - schema.min_value
             tolerance ==
                FloatMulInt(FloatOf(thresholds.scalar_decision_tolerance_ratio, 100),
                            decision_range)
             mean_decision == FloatMean(decisions)
         IN  \A i \in 1..Len(decisions) :
                BigCmp(FloatAbsDiff(decisions[i], mean_decision), tolerance) <= 0

(***************************************************************************)
(* Direct calls with binary64 confidences and values (SpecFloat).         *)
(***************************************************************************)
MaxVotes == 4

\* votes as <<decision_value, tenths of confidence>>, in a fixed order
VoteInputs ==
    <<<<TRUE, 1>>, <<TRUE, 2>>, <<TRUE, 3>>, <<TRUE, 5>>, <<FALSE, 6>>>>

\* scalar decision values in tenths: on [0,1] and on [0,10]
ScalarInputs(schema) ==
    IF schema.max_value = 1 THEN <<2, 3, 4, 5>> ELSE <<50, 58, 62>>

FloatSchemaInputs ==
    {BooleanDecisionSchema, ScalarDecisionSchema(0, 1), ScalarDecisionSchema(0, 10)}

\* the non-decreasing index lists of length n over 1..k
Ascending(n, k) ==
    {s \in [1..n -> 1..k] : \A i \in 1..(n - 1) : s[i] <= s[i + 1]}

\* decision lists reduced to the two fields the float computations read
FloatDecisionInputs(schema, n) ==
    IF schema.type = "boolean"
    THEN {[i \in 1..n |->
              [decision_value |-> VoteInputs[s[i]][1],
               confidence |-> FloatOf(VoteInputs[s[i]][2], 10)]] :
          s \in Ascending(n, Len(VoteInputs))}
    ELSE {[i \in 1..n |->
              [decision_value |-> FloatOf(ScalarInputs(schema)[s[i]], 10),
               confidence |-> FloatOf(5, 10)]] :
          s \in Ascending(n, Len(ScalarInputs(schema)))}

InitFloat ==
    /\ \E schema \in FloatSchemaInputs, n \in 2..MaxVotes :
          /\ task = [task_id |-> "t1", task_type |-> "test",
                     evaluation_criteria |-> "criteria", context |-> {"k"},
                     decision_schema |-> schema]
          /\ float_decisions \in FloatDecisionInputs(schema, n)
    /\ float_permuted = float_decisions
    /\ sum_builtin \in {"sequential", "compensated"}
    /\ float_decision = None
    /\ float_decision_permuted = None
    /\ float_agreement = None
    /\ threshold_config = NoConfig
    /\ thresholds = AlignmentThresholds
    /\ agents = <<>>
    /\ agent_decisions = <<>>
    /\ agentIdx = 0
    /\ alignment_summary = None
    /\ synthesis = None
    /\ enable_hitl = TRUE
    /\ max_retries = 1
    /\ timeout_seconds = timeout_seconds_default
    /\ pc = "done"
    /\ attempt = 0
    /\ last_error = NULL
    /\ transient_only = TRUE
    /\ inflight = {}
    /\ elapsed = 0
    /\ failed_agents = <<>>
    /\ retry_success = {}
    /\ result = None
    /\ raised = NoError
    /\ hitl_pc = "not_called"
    /\ hitl_summary = None
    /\ hitl_request = None
    /\ NoSchemaCalls
    /\ events = <<>>

\* resolver._resolve_boolean_decision(float_decisions, summary): the decision
ResolveBooleanVote ==
    /\ task.decision_schema.type = "boolean"
    /\ float_decision = None
    /\ float_decision' = Some(weighted_vote(float_decisions))
    /\ UNCHANGED <<sum_builtin, float_decisions, float_permuted, float_decision_permuted,
                   float_agreement, orchestrator, config, logging, construction, hitl, direct>>

\* the caller hands the same decisions over in another order
Reorder ==
    /\ task.decision_schema.type = "boolean"
    /\ float_decision_permuted = None
    /\ \E i \in 1..(Len(float_permuted) - 1) :
          float_permuted' = [float_permuted EXCEPT ![i] = float_permuted[i + 1],
                                                   ![i + 1] = float_permuted[i]]
    /\ UNCHANGED <<sum_builtin, float_decisions, float_decision, float_decision_permuted,
                   float_agreement, orchestrator, config, logging, construction, hitl, direct>>

\* resolver._resolve_boolean_decision(float_permuted, summary): the decision
ResolveBooleanVotePermuted ==
    /\ task.decision_schema.type = "boolean"
    /\ float_decision_permuted = None
    /\ float_decision_permuted' = Some(weighted_vote(float_permuted))
    /\ UNCHANGED <<sum_builtin, float_decisions, float_permuted, float_decision,
                   float_agreement, orchestrator, config, logging, construction, hitl, direct>>

\* analyzer._analyze_decision_agreement(float_decisions, schema), scalar schema
AnalyzeScalarAgreement ==
    /\ task.decision_schema.type = "scalar"
    /\ float_agreement = None
    /\ float_agreement' = Some(scalar_agreement(task.decision_schema, float_decisions))
    /\ UNCHANGED <<sum_builtin, float_decisions, float_permuted, float_decision,
                   float_decision_permuted, orchestrator, config, logging, construction, hitl, direct>>

NextFloat ==
    \/ ResolveBooleanVote
    \/ Reorder
    \/ ResolveBooleanVotePermuted
    \/ AnalyzeScalarAgreement

SpecFloat == InitFloat /\ [][NextFloat]_vars

(***************************************************************************)
(* Schema construction (core/models.py): pydantic validates the fields in *)
(* declaration order and hands a validator the fields validated so far.   *)
(***************************************************************************)
InvalidSchema(reason) == [type |-> "ValidationError", reason |-> reason, failures |-> <<>>]

\* the fields of each schema class, in declaration order
CategoricalFields == <<"categories", "allow_multiple">>
ScalarFields == <<"min_value", "max_value">>
FreeFormFields == <<"max_length", "min_length">>

\* the names a validator of field f finds in its values argument
ValuesBefore(fields, f) ==
    {fields[i] : i \in {j \in 1..Len(fields) : \E k \in (j + 1)..Len(fields) : fields[k] = f}}

\* cat.strip() is empty
Blank(cat) == cat \in {"", " "}

\* CategoricalDecisionSchema.validate_categories, after Field(min_items=2)
validate_categories(v) ==
    IF Len(v) < 2 THEN InvalidSchema("ensure this value has at least 2 items")
    ELSE IF Cardinality(Range(v)) # Len(v) THEN InvalidSchema("Categories must be unique")
    ELSE IF \E i \in 1..Len(v) : Blank(v[i])
    THEN InvalidSchema("Categories cannot be empty strings")
    ELSE NoError

\* ScalarDecisionSchema.validate_range on max_value
validate_range(v, values, request) ==
    IF "min_value" \in values /\ v <= request.min_value
    THEN InvalidSchema("max_value must be greater than min_value")
    ELSE NoError

\* FreeFormDecisionSchema.validate_length_constraints on max_length
validate_length_constraints(v, values, request) ==
    IF v # None /\ "min_length" \in values /\ request.min_length # None
       /\ Get(v) <= Get(request.min_length)
    THEN InvalidSchema("max_length must be greater than min_length")
    ELSE NoError

\* the error of the constructor call, NoError when the object is built
construction_error(request) ==
    CASE request.type = "categorical" -> validate_categories(request.categories)
      [] request.type = "scalar" ->
            validate_range(request.max_value, ValuesBefore(ScalarFields, "max_value"),
                           request)
      [] request.type = "freeform" ->
            validate_length_constraints(request.max_length,
                                        ValuesBefore(FreeFormFields, "max_length"), request)
      [] OTHER -> NoError

(***************************************************************************)
(* Direct calls on a single-valued categorical task with up to MaxVotes   *)
(* decisions (SpecCategorical).                                            *)
(***************************************************************************)
CategoricalVoteInputs(n) ==
    {[i \in 1..n |->
        [agent_name |-> AgentNames[i], decision_value |-> StrVal(f[i][1]),
         confidence |-> f[i][2], rationale |-> RationaleOf(i),
         evidence |-> AnalyzeEvidenceOf(i)]] :
        f \in [1..n -> {"a", "b"} \X {50, 100}]}

InitCategorical ==
    /\ \E n \in 2..MaxVotes :
          /\ agent_decisions \in CategoricalVoteInputs(n)
          /\ agents = SubSeq(AgentNames, 1, n)
          /\ agentIdx = n
    /\ task = [task_id |-> "t1", task_type |-> "test",
               evaluation_criteria |-> "criteria", context |-> {"k"},
               decision_schema |-> CategoricalDecisionSchema(<<"a", "b">>, FALSE)]
    /\ threshold_config = NoConfig
    /\ thresholds = AlignmentThresholds
    /\ alignment_summary = None
    /\ synthesis = None
    /\ enable_hitl = TRUE
    /\ max_retries = 1
    /\ timeout_seconds = timeout_seconds_default
    /\ pc = "done"
    /\ attempt = 0
    /\ last_error = NULL
    /\ transient_only = TRUE
    /\ inflight = {}
    /\ elapsed = 0
    /\ failed_agents = <<>>
    /\ retry_success = {}
    /\ result = None
    /\ raised = NoError
    /\ hitl_pc = "not_called"
    /\ hitl_summary = None
    /\ hitl_request = None
    /\ NoFloatCalls
    /\ NoSchemaCalls
    /\ events = <<>>

SpecCategorical == InitCategorical /\ [][NextAnalyze]_vars

(***************************************************************************)
(* Constructor calls (SpecSchema).                                         *)
(***************************************************************************)
MaxBoundValue == 4

CategoryListInputs ==
    {<<>>, <<"a">>, <<"a", "b">>, <<"a", "a">>, <<"a", "">>, <<"a", " ">>, <<"a", "b", "a">>}

LengthInputs == {None} \cup {Some(k) : k \in 0..MaxBoundValue}

SchemaRequestInputs ==
    {BooleanDecisionSchema}
    \cup {CategoricalDecisionSchema(c, m) : c \in CategoryListInputs, m \in BOOLEAN}
    \cup {ScalarDecisionSchema(lo, hi) : lo \in 0..MaxBoundValue, hi \in 0..MaxBoundValue}
    \cup {FreeFormDecisionSchema(lo, hi) : lo \in LengthInputs, hi \in LengthInputs}

InitSchema ==
    /\ schema_request \in SchemaRequestInputs
    /\ schema_object = None
    /\ schema_raised = NoError
    /\ NoFloatCalls
    /\ events = <<>>
    /\ task = NULL
    /\ threshold_config = NoConfig
    /\ thresholds = AlignmentThresholds
    /\ agents = <<>>
    /\ agent_decisions = <<>>
    /\ agentIdx = 0
    /\ alignment_summary = None
    /\ synthesis = None
    /\ enable_hitl = TRUE
    /\ max_retries = 1
    /\ timeout_seconds = timeout_seconds_default
    /\ pc = "idle"
    /\ attempt = 0
    /\ last_error = NULL
    /\ transient_only = TRUE
    /\ inflight = {}
    /\ elapsed = 0
    /\ failed_agents = <<>>
    /\ retry_success = {}
    /\ result = None
    /\ raised = NoError
    /\ hitl_pc = "not_called"
    /\ hitl_summary = None
    /\ hitl_request = None

\* SchemaClass(**request) returns the object
ConstructSchema ==
    /\ schema_object = None
    /\ schema_raised = NoError
    /\ construction_error(schema_request) = NoError
    /\ schema_object' = Some(schema_request)
    /\ UNCHANGED <<schema_request, schema_raised, orchestrator, config, logging, hitl, direct,
                   binary64>>

\* SchemaClass(**request) raises
ConstructSchemaFails ==
    /\ schema_object = None
    /\ schema_raised = NoError
    /\ construction_error(schema_request) # NoError
    /\ schema_raised' = construction_error(schema_request)
    /\ UNCHANGED <<schema_request, schema_object, orchestrator, config, logging, hitl, direct,
                   binary64>>

NextSchema ==
    \/ ConstructSchema
    \/ ConstructSchemaFails

SpecSchema == InitSchema /\ [][NextSchema]_vars

(***************************************************************************)
(* Properties.                                                             *)
(***************************************************************************)
Returned == pc = "done" /\ result # None
ResultDecisions == Get(result).agent_decisions

\* C1: evaluate on a valid task returns an EvaluationResult whenever at
\* least one registered agent produced a decision, and raises only when
\* every registered agent failed (a lone successful agent included).
C1_ResultWheneverAnAgentSucceeds ==
    (pc = "done" /\ _validate_task(task) /\ agent_decisions # <<>>)
        => (result # None /\ raised = NoError)

\* C2 (as claimed): the agents are not serialised: while an earlier agent
\* is in its back-off sleep, the first attempt of the next registered agent
\* can start without waiting for it.
C2_LaterAgentNeedNotWait ==
    (pc = "sleep" /\ agentIdx < Len(agents))
        => ENABLED (Next /\ agentIdx' = agentIdx + 1)

\* C2 (amended): the agents run strictly one after another in registered
\* order: at most one attempt is in flight, it is the current agent's, and
\* while agent i is attempted or sleeping every agent before i has finished
\* (with a decision or a failure) and no agent after i has been called.
C2_AgentsRunOneAtATime ==
    /\ Cardinality(inflight) <= 1
    /\ inflight \subseteq {agentIdx}
    /\ pc = "inflight" => inflight = {agentIdx}
    /\ pc \in {"inflight", "sleep"}
          => Len(agent_decisions) + Len(failed_agents) = agentIdx - 1

C2_Witness ==
    /\ pc = "sleep"
    /\ agentIdx = 1
    /\ Len(agents) >= 2
    /\ inflight = {}
    /\ agent_decisions = <<>> /\ failed_agents = <<>>

\* C3: the agent_decisions of every returned result list the successful
\* agents in registered order: their names are a subsequence of the
\* registered agent list.
C3_DecisionsInRegisteredOrder ==
    Returned =>
        /\ \A i \in 1..Len(ResultDecisions) :
               \E k \in 1..Len(agents) : agents[k] = ResultDecisions[i].agent_name
        /\ \A i, j \in 1..Len(ResultDecisions) :
               i < j => \A k, l \in 1..Len(agents) :
                            (agents[k] = ResultDecisions[i].agent_name
                               /\ agents[l] = ResultDecisions[j].agent_name) => k < l

C3_Witness ==
    /\ Returned
    /\ Len(agents) = 3
    /\ AgentNamesOf(ResultDecisions) = <<"A", "C">>
    /\ Len(failed_agents) = 1

\* C4 (as claimed): a back-off sleep and a further call are taken only
\* after a transient failure; a permanent failure or an invalid-task error
\* ends the agent's attempts.
C4_RetryOnlyTransient ==
    [][(pc = "inflight" /\ pc' = "sleep") => last_error' = "transient"]_vars

\* C4 (amended): a failed attempt is retried whatever the kind of the
\* failure, as long as fewer than max_retries attempts were made: the
\* back-off sleep is taken after an attempt before the last, the sleep is
\* followed by the next attempt of the same agent, and an agent is recorded
\* as failed only when its attempt number max_retries failed.
C4_RetryAnyFailure ==
    [][ /\ (pc = "inflight" /\ pc' = "sleep") => attempt < max_retries - 1
        /\ Len(failed_agents') > Len(failed_agents) => attempt = max_retries - 1
        /\ pc = "sleep" => (pc' = "inflight" /\ attempt' = attempt + 1
                              /\ agentIdx' = agentIdx) ]_vars

C4_Witness ==
    /\ pc = "inflight"
    /\ attempt = 1
    /\ last_error \in {"permanent", "invalid_task"}
    /\ inflight = {agentIdx}

\* C5: each agent is called at most max_retries times, and an agent that
\* failed transiently on exactly its first max_retries - 1 attempts and
\* succeeded on the next contributes its decision to the result.
C5_RetryBudget ==
    /\ attempt < max_retries
    /\ (pc = "done" /\ _validate_task(task))
          => \A i \in retry_success :
                 /\ result # None
                 /\ agents[i] \in Range(AgentNamesOf(ResultDecisions))

\* C6: an attempt never stays in flight beyond the deadline
\* timeout_seconds: it is cancelled at the deadline.
C6_AttemptBoundedByDeadline ==
    pc = "inflight" => elapsed <= timeout_seconds

\* C7: every decision of an emitted result, and of a HITL request built
\* from it, has a decision_value the task's schema accepts and a confidence
\* in [0,1].
C7_DecisionsSatisfySchema ==
    /\ Returned =>
          \A i \in 1..Len(ResultDecisions) :
              /\ validate_decision(task.decision_schema, ResultDecisions[i].decision_value)
              /\ ResultDecisions[i].confidence \in 0..100
    /\ hitl_request # None =>
          \A i \in 1..Len(Get(hitl_request).agent_decisions) :
              validate_decision(task.decision_schema,
                                Get(hitl_request).agent_decisions[i].decision_value)

\* C8: when every registered agent has failed, evaluate returns no result
\* and raises one failure that lists one (agent name, final error) entry per
\* registered agent, in registered order.
C8_AllAgentsFailed ==
    (pc = "done" /\ _validate_task(task) /\ agent_decisions = <<>>)
        => /\ result = None
           /\ raised.type = "RuntimeError"
           /\ Len(raised.failures) = Len(agents)
           /\ \A i \in 1..Len(agents) :
                  /\ raised.failures[i].agent_name = agents[i]
                  /\ raised.failures[i].last_error \in FailureKinds

C8_Witness ==
    /\ pc = "done"
    /\ Len(agents) = 3
    /\ agent_decisions = <<>>
    /\ raised.reason = "all_agents_failed"
    /\ Len(raised.failures) = 3

\* C9: in every returned result requires_human_review is true exactly when
\* enable_hitl is set and the alignment state is HARD_DISAGREEMENT, and
\* then review_reason is not null.
C9_ReviewIffEnabledAndHard ==
    Returned =>
        /\ Get(result).requires_human_review
              <=> (enable_hitl /\ Get(result).alignment_summary.state = "hard_disagreement")
        /\ Get(result).requires_human_review => Get(result).review_reason # NULL

C9_Witness ==
    /\ Returned
    /\ Get(result).requires_human_review
    /\ Get(result).alignment_summary.state = "hard_disagreement"

\* C10: build_hitl_request returns nothing if and only if
\* result.requires_human_review is false; when it is true it returns a
\* request for the summary it was given, whatever the summary's state.
C10_RequestIffReviewRequired ==
    hitl_pc = "returned" =>
        /\ (hitl_request = None) <=> ~Get(result).requires_human_review
        /\ Get(result).requires_human_review
              => Get(hitl_request).alignment_state = Get(hitl_summary).state

C10_Witness ==
    /\ hitl_pc = "returned"
    /\ Get(result).requires_human_review
    /\ Get(hitl_summary).state = "full_alignment"
    /\ hitl_request # None

\* C11: the escalation_reason of a request build_hitl_request returns is
\* determined by the summary alone: hard disagreement -> hard_disagreement,
\* insufficient signal -> low_confidence, soft disagreement ->
\* inconsistent_evidence if "evidence_quality" is a disagreement area and
\* low_confidence otherwise, any other state -> custom_rule.
C11_EscalationReasonMapping ==
    (hitl_pc = "returned" /\ hitl_request # None) =>
        LET sm == Get(hitl_summary)
            reason == Get(hitl_request).escalation_reason
        IN  /\ sm.state = "hard_disagreement" => reason = "hard_disagreement"
            /\ sm.state = "insufficient_signal" => reason = "low_confidence"
            /\ sm.state = "soft_disagreement" =>
                   reason = IF \E i \in 1..Len(sm.disagreement_areas) :
                                   sm.disagreement_areas[i] = "evidence_quality"
                            THEN "inconsistent_evidence" ELSE "low_confidence"
            /\ sm.state \notin {"hard_disagreement", "insufficient_signal",
                                 "soft_disagreement"} => reason = "custom_rule"

C11_Witness ==
    /\ hitl_pc = "returned"
    /\ hitl_request # None
    /\ Get(hitl_summary).state = "soft_disagreement"
    /\ Get(hitl_summary).disagreement_areas = <<"evidence_quality">>
    /\ Get(hitl_request).escalation_reason = "inconsistent_evidence"

\* ---- properties of analyze_alignment (SpecAnalyze) ----

Analyzed == alignment_summary # None

\* the summary's average confidence is below threshold t (both in hundredths)
AvgBelow(summary, t) == summary.avg_confidence.num < t * summary.avg_confidence.den

\* C12: the state of every summary follows the first-match priority over the
\* summary's own fields: insufficient_signal when the average confidence is
\* below insufficient_signal_avg_confidence; otherwise hard_disagreement when
\* the decisions disagree, the spread exceeds the hard threshold or there are
\* three or more disagreement areas; otherwise soft_disagreement when the
\* spread exceeds the soft threshold or there is a disagreement area;
\* otherwise full_alignment
C12_StateByFirstMatch ==
    Analyzed =>
        LET s == Get(alignment_summary)
            low == AvgBelow(s, thresholds.insufficient_signal_avg_confidence)
            hard == \/ ~s.decision_agreement
                    \/ s.confidence_spread > thresholds.hard_disagreement_confidence_spread
                    \/ Len(s.disagreement_areas) >= 3
            soft == \/ s.confidence_spread > thresholds.soft_disagreement_confidence_spread
                    \/ Len(s.disagreement_areas) >= 1
        IN  /\ Len(agent_decisions) >= 2
            /\ s.state \in AlignmentStates
            /\ (s.state = "insufficient_signal") = low
            /\ (s.state = "hard_disagreement") = (~low /\ hard)
            /\ (s.state = "soft_disagreement") = (~low /\ ~hard /\ soft)
            /\ (s.state = "full_alignment") = (~low /\ ~hard /\ ~soft)

\* a summary whose average is low while the decisions also disagree
C12_Witness ==
    /\ Analyzed
    /\ Get(alignment_summary).state = "insufficient_signal"
    /\ ~Get(alignment_summary).decision_agreement
    /\ Get(alignment_summary).confidence_spread
            > thresholds.hard_disagreement_confidence_spread

\* C13: a summary in state full_alignment reports agreement on the decision
\* and lists no disagreement area, for every schema and threshold setting
C13_FullAlignmentIsClean ==
    (Analyzed /\ Get(alignment_summary).state = "full_alignment") =>
        /\ Get(alignment_summary).decision_agreement
        /\ Get(alignment_summary).disagreement_areas = <<>>

\* a fully aligned summary computed under thresholds other than the defaults
C13_Witness ==
    /\ Analyzed
    /\ Get(alignment_summary).state = "full_alignment"
    /\ thresholds # AlignmentThresholds
    /\ task.decision_schema.type = "scalar"

\* the quotient q lies in [0, scale] (scale 1 for fractions, 100 for hundredths)
InUnitRange(q, scale) == q.den > 0 /\ 0 <= q.num /\ q.num <= scale * q.den

\* C14: every summary has alignment_score, consensus_strength,
\* confidence_spread and avg_confidence within [0,1], the ranges the
\* AlignmentSummary fields are constrained to
C14_SummaryFieldsInRange ==
    Analyzed =>
        LET s == Get(alignment_summary)
        IN  /\ InUnitRange(s.alignment_score, 1)
            /\ InUnitRange(s.consensus_strength, 1)
            /\ 0 <= s.confidence_spread /\ s.confidence_spread <= 100
            /\ InUnitRange(s.avg_confidence, 100)

\* the upper ends are attained: unanimous agents, all with confidence 1
C14_Witness ==
    /\ Analyzed
    /\ Get(alignment_summary).consensus_strength.num
            = Get(alignment_summary).consensus_strength.den
    /\ Get(alignment_summary).avg_confidence.num
            = 100 * Get(alignment_summary).avg_confidence.den

\* sum of the values of the mapping f over the keys in S
RECURSIVE SumValues(_, _)
SumValues(f, S) ==
    IF S = {} THEN 0
    ELSE LET k == CHOOSE x \in S : TRUE IN f[k] + SumValues(f, S \ {k})

\* C15: in every summary avg_confidence is the mean of the values of
\* confidence_distribution and confidence_spread is their maximum minus their
\* minimum, whether or not the agent names are distinct
C15_MetricsMatchDistribution ==
    Analyzed =>
        LET s == Get(alignment_summary)
            dist == s.confidence_distribution
            values == {dist[k] : k \in DOMAIN dist}
        IN  /\ s.avg_confidence.num * Cardinality(DOMAIN dist)
                    = SumValues(dist, DOMAIN dist) * s.avg_confidence.den
            /\ s.confidence_spread = MaxOf(values) - MinOf(values)

\* ---- properties of resolve_disagreement (SpecAnalyze) ----

Resolved == synthesis # None

\* C17: when every agent decision is accepted by the task's schema, the
\* decision returned by resolve_disagreement is accepted by that schema too
\* (Boolean, Categorical with and without allow_multiple, Scalar, FreeForm)
C17_ResolvedDecisionIsValid ==
    (/\ Resolved
     /\ task.decision_schema.type \in {"boolean", "categorical", "scalar", "freeform"}
     /\ \A i \in 1..Len(agent_decisions) :
            validate_decision(task.decision_schema, agent_decisions[i].decision_value))
        => validate_decision(task.decision_schema, Get(synthesis).decision)

\* C19: the evidence list returned by resolve_disagreement holds at most 5
\* items for every schema, the fallback for other schemas included
C19_EvidenceAtMostFive ==
    Resolved => Len(Get(synthesis).evidence) <= 5

\* ---- properties of the float computations (SpecFloat) ----

\* the exact sum of the confidences voting true exceeds that of those voting false
ExactTrueExceedsFalse(ds) ==
    BigCmp(BigSum(ConfidencesWhere(ds, TRUE)), BigSum(ConfidencesWhere(ds, FALSE))) > 0

\* C18: for a Boolean schema the resolved decision is true exactly when the
\* confidences of the agents deciding true sum to strictly more than those
\* of the agents deciding false, and two calls on the same decisions in
\* different orders return the same decision
C18_WeightedMajorityAnyOrder ==
    /\ float_decision # None =>
            Get(float_decision) = ExactTrueExceedsFalse(float_decisions)
    /\ (float_decision # None /\ float_decision_permuted # None) =>
            Get(float_decision) = Get(float_decision_permuted)

\* every value is within range * ratio of the mean, boundary included, in
\* exact arithmetic: |n*d - S| <= n * range * ratio
ExactWithinTolerance(schema, ds) ==
    LET n == Len(ds)
        S == BigSum([i \in 1..n |-> ds[i].decision_value])
        ratio == FloatOf(thresholds.scalar_decision_tolerance_ratio, 100)
        bound == BigMulSmall(ratio, (schema.max_value - schema.min_value) * n)
    IN  \A i \in 1..n :
            BigCmp(BigAbsDiff(BigMulSmall(ds[i].decision_value, n), S), bound) <= 0

\* C20: for a Scalar schema decision_agreement is true exactly when every
\* decision value lies within (max - min) * scalar_decision_tolerance_ratio
\* of the mean of the values, the boundary included
C20_ScalarAgreementIffWithinTolerance ==
    float_agreement # None =>
        Get(float_agreement) = ExactWithinTolerance(task.decision_schema, float_decisions)

\* ---- further properties of analyze_alignment (SpecAnalyze) ----

\* the decisions of a multi-valued categorical task all hold the same categories
SameCategories(ds) ==
    \A i, j \in 1..Len(ds) : Range(ds[i].decision_value.l) = Range(ds[j].decision_value.l)

\* C21: under a Categorical schema with allow_multiple, decisions holding
\* the same categories in whatever order count as equal: the summary
\* reports decision_agreement, no dissenting agent and no
\* "primary_decision" disagreement area
C21_CategoryOrderIgnored ==
    (/\ Analyzed
     /\ task.decision_schema.type = "categorical"
     /\ task.decision_schema.allow_multiple
     /\ SameCategories(agent_decisions))
        => /\ Get(alignment_summary).decision_agreement
           /\ Get(alignment_summary).dissenting_agents = <<>>
           /\ "primary_decision" \notin Range(Get(alignment_summary).disagreement_areas)

\* ---- properties of schema construction (SpecSchema) ----

\* the structural rules of the schema classes
WellFormedSchema(schema) ==
    CASE schema.type = "categorical" ->
            /\ schema.categories # <<>>
            /\ Cardinality(Range(schema.categories)) = Len(schema.categories)
      [] schema.type = "scalar" -> schema.max_value > schema.min_value
      [] schema.type = "freeform" ->
            (schema.min_length # None /\ schema.max_length # None)
                => Get(schema.max_length) > Get(schema.min_length)
      [] OTHER -> TRUE

\* C22: every schema object a constructor returns obeys the structural
\* rules: categories non-empty and without duplicates, max_value above
\* min_value, max_length above min_length when both are given
C22_ConstructedSchemaWellFormed ==
    schema_object # None => WellFormedSchema(Get(schema_object))

\* ---- further properties of the orchestrator (Spec) ----

\* C23: every HITL request that create_hitl_request builds from a result
\* returned by evaluate carries the escalation reason hard_disagreement
C23_PipelineEscalatesHardOnly ==
    (hitl_pc = "returned" /\ hitl_request # None) =>
        /\ Get(hitl_request).escalation_reason = "hard_disagreement"
        /\ Get(result).alignment_summary.state = "hard_disagreement"

\* a request built from a returned result
C23_Witness ==
    /\ Returned
    /\ hitl_pc = "returned"
    /\ hitl_request # None
    /\ Get(hitl_request).escalation_reason = "hard_disagreement"

\* the decision string with the most decisions, the first such in input order
MajorityValue(ds) ==
    LET count == [i \in 1..Len(ds) |->
                    Cardinality({j \in 1..Len(ds) :
                        Str(ds[j].decision_value) = Str(ds[i].decision_value)})]
        first == CHOOSE i \in 1..Len(ds) :
                    /\ \A j \in 1..Len(ds) : count[j] <= count[i]
                    /\ \A j \in 1..(i - 1) : count[j] < count[i]
    IN  Str(ds[first].decision_value)

DistinctNames(ds) ==
    \A i, j \in 1..Len(ds) : ds[i].agent_name = ds[j].agent_name => i = j

KeywordOverlapBelow(ds, t) ==
    LET sets == {Keywords(ds[i]) : i \in 1..Len(ds)}
        union == UNION sets
        intersection == {w \in union : \A k \in sets : w \in k}
    IN  100 * Cardinality(intersection) < t * Cardinality(union) \/ (union = {} /\ 0 < t)

\* max(0, 1 - stdev/mean) of the evidence list lengths is below t hundredths,
\* the consistency being 1 when every evidence list is empty
EvidenceConsistencyBelow(ds, t) ==
    LET n == Len(ds)
        S == SumSeq([i \in 1..n |-> Len(ds[i].evidence)])
        squares == SumSeq([i \in 1..n |->
                       (n * Len(ds[i].evidence) - S) * (n * Len(ds[i].evidence) - S)])
    IN  IF S = 0 THEN 100 < t
        ELSE IF squares >= (n - 1) * S * S THEN 0 < t
        ELSE (100 - t) * (100 - t) * (n - 1) * S * S < 100 * 100 * squares

\* C25: disagreement_areas is the ordered sub-list of [primary_decision,
\* confidence_levels, reasoning_approach, evidence_quality] that holds
\* primary_decision iff the decision strings are not all equal,
\* confidence_levels iff the spread exceeds the soft threshold,
\* reasoning_approach iff the keyword overlap is below the overlap threshold,
\* and evidence_quality iff the evidence consistency is below the configured
\* evidence_consistency_threshold (0.5 when the configuration does not set it).
C25_AreasFollowConfiguredThresholds ==
    Analyzed =>
        LET ds == agent_decisions
            cs == {ds[i].confidence : i \in 1..Len(ds)}
            member == [area \in {"primary_decision", "confidence_levels",
                                 "reasoning_approach", "evidence_quality"} |->
                CASE area = "primary_decision" ->
                        \E i, j \in 1..Len(ds) :
                            Str(ds[i].decision_value) # Str(ds[j].decision_value)
                  [] area = "confidence_levels" ->
                        MaxOf(cs) - MinOf(cs) > thresholds.soft_disagreement_confidence_spread
                  [] area = "reasoning_approach" ->
                        KeywordOverlapBelow(ds, thresholds.reasoning_overlap_threshold)
                  [] OTHER ->
                        EvidenceConsistencyBelow(ds,
                            ConfigGet(threshold_config, "evidence_consistency_threshold", 50))]
        IN  Get(alignment_summary).disagreement_areas =
                SelectSeq(<<"primary_decision", "confidence_levels",
                            "reasoning_approach", "evidence_quality">>,
                          LAMBDA area : member[area])

\* greatest common divisor of a >= 0 and b >= 0, not both 0
RECURSIVE Gcd(_, _)
Gcd(a, b) == IF b = 0 THEN a ELSE Gcd(b, a % b)

\* the quotient q in lowest terms
Reduced(q) == [num |-> q.num \div Gcd(q.num, q.den), den |-> q.den \div Gcd(q.num, q.den)]

\* the quotients p and q are the same number
SameQuotient(p, q) == Reduced(p) = Reduced(q)

\* C26: in every summary alignment_score is
\* 0.4*[decision_agreement] + 0.3*max(0, 1 - spread) + 0.3*(1 - d/(d+1))
\* clamped to [0,1], d being the number of dissenting agents, and
\* consensus_strength is alignment_score * avg_confidence (exact arithmetic,
\* all three read from the summary itself)
C26_ScoreAndStrengthFormula ==
    Analyzed =>
        LET s == Get(alignment_summary)
            d == Len(s.dissenting_agents)
            slack == 100 - s.confidence_spread
            \* thousandths of the unclamped score, times d + 1
            raw == (IF s.decision_agreement THEN 400 * (d + 1) ELSE 0)
                       + 3 * (IF slack > 0 THEN slack ELSE 0) * (d + 1)
                       + (300 * (d + 1) - 300 * d)
            one == 1000 * (d + 1)
            score == [num |-> IF raw > one THEN one ELSE IF raw < 0 THEN 0 ELSE raw,
                      den |-> one]
        IN  /\ SameQuotient(s.alignment_score, score)
            /\ SameQuotient(s.consensus_strength,
                            [num |-> s.alignment_score.num * s.avg_confidence.num,
                             den |-> s.alignment_score.den * s.avg_confidence.den * 100])

\* every term of the score contributes: the agents agree within the scalar
\* tolerance, one of them is listed as dissenting, and the confidences differ
C26_Witness ==
    /\ Analyzed
    /\ Get(alignment_summary).decision_agreement
    /\ Len(Get(alignment_summary).dissenting_agents) = 1
    /\ Get(alignment_summary).confidence_spread = 50
    /\ Get(alignment_summary).consensus_strength.num > 0

\* ---- properties of the categorical resolver (SpecCategorical) ----

\* sum of the confidences of the decisions for category k
SupportOf(ds, k) ==
    SumSeq([i \in 1..Len(ds) |->
               IF ds[i].decision_value = StrVal(k) THEN ds[i].confidence ELSE 0])

\* C27: for a single-valued Categorical schema the resolved decision is the
\* category with the largest sum of supporter confidences, the first such
\* category in input order on a tie, and the evidence is the first 2 items
\* of each of at most the first 3 supporting agents in input order, cut to 5
C27_CategoricalWinnerAndEvidence ==
    (Resolved /\ task.decision_schema.type = "categorical"
              /\ ~task.decision_schema.allow_multiple) =>
        LET ds == agent_decisions
            winner == Get(synthesis).decision
            first == CHOOSE i \in 1..Len(ds) : ds[i].decision_value = winner
            supporters == SelectSeq(ds, LAMBDA d : d.decision_value = winner)
            three == SubSeq(supporters, 1, IF Len(supporters) < 3 THEN Len(supporters) ELSE 3)
            items == Concat([i \in 1..Len(three) |->
                        SubSeq(three[i].evidence, 1,
                               IF Len(three[i].evidence) < 2 THEN Len(three[i].evidence) ELSE 2)])
        IN  /\ \E i \in 1..Len(ds) : ds[i].decision_value = winner
            /\ \A j \in 1..Len(ds) :
                    SupportOf(ds, ds[j].decision_value.s) <= SupportOf(ds, winner.s)
            /\ \A j \in 1..(first - 1) :
                    SupportOf(ds, ds[j].decision_value.s) < SupportOf(ds, winner.s)
            /\ Get(synthesis).evidence = SubSeq(items, 1, IF Len(items) < 5 THEN Len(items) ELSE 5)

\* ---- properties of the log of evaluate (SpecEvents) ----

\* number of records of the log with the given name and agent name
CountEvents(name, agent_name) ==
    Cardinality({i \in 1..Len(events) : events[i] = Event(name, agent_name)})

\* C28: in the log of one evaluate call multi_agent_evaluation_started is
\* the first record and occurs once; no completed or failed record occurs
\* before evaluate ends, and when it ends exactly one of them is the last
\* record: completed when a result is returned, failed when an error is
\* raised; agent_execution_failed occurs once for each agent that exhausted
\* its attempts and for no other agent; partial_agent_failure occurs at most
\* once, and by the end of evaluate exactly when some but not all agents
\* failed
C28_EventOrdering ==
    LET completed == CountEvents("multi_agent_evaluation_completed", NULL)
        failed == CountEvents("multi_agent_evaluation_failed", NULL)
        partial == CountEvents("partial_agent_failure", NULL)
        exhausted == {failed_agents[i].agent_name : i \in 1..Len(failed_agents)}
    IN  /\ pc # "idle" =>
                /\ events[1] = Event("multi_agent_evaluation_started", NULL)
                /\ CountEvents("multi_agent_evaluation_started", NULL) = 1
        /\ pc = "idle" => events = <<>>
        /\ pc # "done" => completed = 0 /\ failed = 0 /\ partial = 0
        /\ pc = "done" =>
                /\ completed + failed = 1
                /\ events[Len(events)].event \in {"multi_agent_evaluation_completed",
                                                  "multi_agent_evaluation_failed"}
                /\ completed = 1 <=> result # None
                /\ failed = 1 <=> raised # NoError
                /\ partial = IF Len(failed_agents) > 0 /\ Len(failed_agents) < Len(agents)
                             THEN 1 ELSE 0
        /\ \A i \in 1..Len(agents) :
                CountEvents("agent_execution_failed", agents[i])
                    = IF agents[i] \in exhausted THEN 1 ELSE 0

\* evaluate returned a result after one agent exhausted its attempts with a
\* retry and another one succeeded
C28_Witness ==
    /\ pc = "done"
    /\ result # None
    /\ Len(failed_agents) = 1
    /\ CountEvents("agent_retry", failed_agents[1].agent_name) > 0
    /\ CountEvents("partial_agent_failure", NULL) = 1

\* ---- properties of the escalation reason (Spec) ----

\* C29: every request built with escalation_reason hard_disagreement from
\* the summary the analyser computed comes from a summary with
\* decision_agreement false and at least one dissenting agent
C29_HardEscalationMeansDecisionConflict ==
    (/\ hitl_pc = "returned"
     /\ hitl_request # None
     /\ Get(hitl_request).escalation_reason = "hard_disagreement") =>
        /\ ~Get(hitl_summary).decision_agreement
        /\ Len(Get(hitl_summary).dissenting_agents) >= 1

\* ---- consistency of a summary (SpecAnalyze) ----

\* C30: for every schema and every list of at least two decisions with
\* distinct agent names, decision_agreement is true exactly when
\* dissenting_agents is empty, and dissenting_agents is empty exactly when
\* "primary_decision" is not among the disagreement areas
C30_AgreementViewsCoincide ==
    (Analyzed /\ DistinctNames(agent_decisions)) =>
        LET s == Get(alignment_summary)
        IN  /\ s.decision_agreement <=> s.dissenting_agents = <<>>
            /\ s.dissenting_agents = <<>>
                    <=> "primary_decision" \notin Range(s.disagreement_areas)

====
